---- MODULE Spec2Model ----
(***************************************************************************)
(* A model of the pinger's probing engine: main's start-up sequence, the   *)
(* per-target scheduler tasks, the three probe kinds (raw HTTP, pooled     *)
(* HTTP, TCP) with their timeout race, and the hand-over of outcomes to    *)
(* the metrics aggregator.                                                 *)
(*                                                                         *)
(* Granularity: one action per resumption of a future.  Code that runs     *)
(* between two await points runs in one poll and is one step here.         *)
(***************************************************************************)
EXTENDS Integers, Sequences, FiniteSets, TLC

(* ---------------------------------------------------------------- bounds *)

\* The targets of one protocol class: an entry list holds at most one entry
\* per id.  The tasks of different targets share nothing but the token and
\* the aggregator.
TargetIds == {1, 2}
\* Largest value drawn for `retries` (a u8 in the source).
MaxRetries == 2
\* Largest value drawn for interval_millis and timeout_millis.
MaxMillis == 2
\* Largest number of addresses in the answer to one DNS lookup.
MaxIps == 2
\* Largest number of TimedResolver::resolve calls in one run.
MaxResolves == 2
\* Largest number of record_http_ping / record_tcp_ping calls in one run.
MaxRecords == 3
\* Largest number of record calls made on a history that is nearly full.
MaxHistoryRecords == 2

(* ---------------------------------------------------------- configuration *)

\* HttpPinger enum.
HttpPingerKinds == {"Hyper", "Reqwest"}

\* The URLs of HTTP entries, by what the constructors look at: the scheme of
\* a URL that parses and has a host and no explicit port ("ftp": a scheme
\* other than http and https with a default port; "foo": a scheme without
\* one), or "invalid" for a URL that does not parse or has no host.
HttpUrls == {"http", "https", "ftp", "foo", "invalid"}

HttpPingerEntry == [url : HttpUrls]

\* TCP entries: the host is a literal IP, a DNS name, or not a server name.
TcpHosts == {"ip", "name", "bad"}

\* always_resolve is read for a name only (TcpPinger::new).
TcpPingerEntry ==
    {e \in [host : TcpHosts, always_resolve : BOOLEAN] :
        e.always_resolve => e.host = "name"}

EntryLists(S) == UNION {[1..k -> S] : k \in 0..Cardinality(TargetIds)}

HttpPingerConfig ==
    [pinger : HttpPingerKinds,
     retries : 0..MaxRetries,
     timeout_millis : 1..MaxMillis,
     interval_millis : 1..MaxMillis,
     entries : EntryLists(HttpPingerEntry)]

TcpPingerConfig ==
    [retries : 0..MaxRetries,
     timeout_millis : 1..MaxMillis,
     interval_millis : 1..MaxMillis,
     entries : EntryLists(TcpPingerEntry)]

PingerConfig == [http : HttpPingerConfig, tcp : TcpPingerConfig]

\* The addresses a DNS answer can hold, and the answers to one lookup_ip
\* call: an error, or a list of addresses (which can be empty).
DnsAddrs == {"a1", "a2"}

IpSeqs == UNION {[1..n -> DnsAddrs] : n \in 0..MaxIps}

Lookups ==
    {[err |-> TRUE, ips |-> <<>>]} \cup {[err |-> FALSE, ips |-> s] : s \in IpSeqs}

(* ------------------------------------------------------------------ state *)

VARIABLES
    config,     \* the loaded PingerConfig (immutable after load_config)
    pcMain,     \* main's position
    next,       \* index of the entry main creates next
    rejectedBy, \* the class whose interval check made main return Err
    cancelled,  \* the CancellationToken
    task,       \* per target: the scheduler task's local state
    norm,       \* a call of TcpPinger::normalize_address: input and result
    timed,      \* the calls made to a TimedResolver, and its reporter's log
    metrics,    \* PingMetrics, and the record calls in progress on it
    labelled    \* HTTP responses counted under their labels

vars ==
    <<config, pcMain, next, rejectedBy, cancelled, task, norm, timed, metrics,
      labelled>>

\* The state of the components exercised on their own.
lib == <<norm, timed, metrics, labelled>>

HttpTasks == {<<"http", k>> : k \in TargetIds}
TcpTasks == {<<"tcp", k>> : k \in TargetIds}
Tasks == HttpTasks \cup TcpTasks

Class(t) == t[1]

NoProbe == [backend |-> "-", scheme |-> "-", policy |-> "-", addr |-> "-"]

\* A target for which no task was spawned.
\*   pc        "none" | "idle" (in select!) | "ping" (inside ping().await)
\*             | "done" (loop left) | "panicked"
\*   attempt   iterations of `for _ in 0..retries` begun in the current tick
\*   step      the await point ping_inner is suspended at
\*   outcomes  what each finished attempt of the current tick came to
\*   last      how the latest finished attempt ended
\*   recorded  the labels handed to the aggregator in the current tick
\*   lookups   DNS calls made while the target's probe was constructed
\*   answer    the addresses the construction's DNS call returned
\*   resolves  DNS calls made by the attempts of the current tick
\*   resolve_time  ping_inner's local of that name (TCP)
\*   inflight  calls of ping() that have not returned
\*   atCancel  the attempt that was running when the token was cancelled
\*   clock     time since ping_inner was entered (TCP), one unit per
\*             awaited operation
\*   connect_begin  the clock when socket.connect was called (TCP)
NoOutcome ==
    [res |-> "-", by |-> "-", step |-> "-", io |-> "-", inner |-> "-",
     resolve_time |-> "-", established_time |-> "-"]

NoTask ==
    [pc |-> "none", probe |-> NoProbe, attempt |-> 0, step |-> "-",
     outcomes |-> <<>>, last |-> NoOutcome, recorded |-> <<>>,
     lookups |-> 0, answer |-> <<>>, resolves |-> 0, resolve_time |-> "None", inflight |-> 0,
     atCancel |-> 0, clock |-> 0, connect_begin |-> 0, trace |-> <<>>,
     ticked |-> FALSE]

(* ------------------------------------------------------ probe construction *)

\* url.port_or_known_default() for a URL without an explicit port.
port_or_known_default(url) ==
    CASE url = "http" -> "80"
      [] url = "https" -> "443"
      [] url = "ftp" -> "21"
      [] OTHER -> "None"

\* The host joined to the port: the address the probe connects to.
HttpAddress(url) ==
    CASE port_or_known_default(url) = "80" -> "host:80"
      [] port_or_known_default(url) = "443" -> "host:443"
      [] port_or_known_default(url) = "21" -> "host:21"

\* HyperPinger::new: the URL must parse, have a host and a known port.
HyperPinger_new(entry) ==
    IF entry.url = "invalid" \/ port_or_known_default(entry.url) = "None"
    THEN [ok |-> FALSE, probe |-> NoProbe]
    ELSE [ok |-> TRUE,
          probe |-> [backend |-> "Hyper", scheme |-> entry.url, policy |-> "-",
                     addr |-> HttpAddress(entry.url)]]

\* ReqwestPinger::new: the same validation, then the client is built.
ReqwestPinger_new(entry) ==
    IF entry.url = "invalid" \/ port_or_known_default(entry.url) = "None"
    THEN [ok |-> FALSE, probe |-> NoProbe]
    ELSE [ok |-> TRUE,
          probe |-> [backend |-> "Reqwest", scheme |-> entry.url, policy |-> "-",
                     addr |-> HttpAddress(entry.url)]]

\* ServerName::IpAddress(ip): the address a literal-IP host stands for.
LiteralIp == "lit"

TcpProbe(policy, addr) ==
    [backend |-> "Tcp", scheme |-> "-", policy |-> policy, addr |-> addr]

\* Mutant: a literal IP is looked up like a name.
TcpPinger_new_LooksUpLiteral(entry, lookup) ==
    CASE entry.host = "bad" -> [ok |-> FALSE, probe |-> NoProbe, lookups |-> 0]
      [] entry.host = "name" /\ entry.always_resolve ->
            [ok |-> TRUE, probe |-> TcpProbe("Always", "-"), lookups |-> 0]
      [] OTHER ->
            IF ~lookup.err /\ lookup.ips # <<>>
            THEN [ok |-> TRUE, probe |-> TcpProbe("Resolved", lookup.ips[1]),
                  lookups |-> 1]
            ELSE [ok |-> FALSE, probe |-> NoProbe, lookups |-> 1]

\* Mutant: the policy is fixed to the last address of the answer.
TcpPinger_new_LastAddress(entry, lookup) ==
    CASE entry.host = "bad" -> [ok |-> FALSE, probe |-> NoProbe, lookups |-> 0]
      [] entry.host = "ip" ->
            [ok |-> TRUE, probe |-> TcpProbe("Resolved", LiteralIp), lookups |-> 0]
      [] entry.host = "name" /\ entry.always_resolve ->
            [ok |-> TRUE, probe |-> TcpProbe("Always", "-"), lookups |-> 0]
      [] OTHER ->
            IF ~lookup.err /\ lookup.ips # <<>>
            THEN [ok |-> TRUE,
                  probe |-> TcpProbe("Resolved", lookup.ips[Len(lookup.ips)]),
                  lookups |-> 1]
            ELSE [ok |-> FALSE, probe |-> NoProbe, lookups |-> 1]

\* TcpPinger::new: the resolve policy is fixed here.  `lookup` is the answer
\* to the one lookup_ip call made for a name without always_resolve; the
\* result also tells how many lookup_ip calls the construction made.
TcpPinger_new(entry, lookup) ==
    CASE entry.host = "bad" -> [ok |-> FALSE, probe |-> NoProbe, lookups |-> 0]
      [] entry.host = "ip" ->
            [ok |-> TRUE, probe |-> TcpProbe("Resolved", LiteralIp), lookups |-> 0]
      [] entry.host = "name" /\ entry.always_resolve ->
            [ok |-> TRUE, probe |-> TcpProbe("Always", "-"), lookups |-> 0]
      [] OTHER ->
            IF ~lookup.err /\ lookup.ips # <<>>
            THEN [ok |-> TRUE, probe |-> TcpProbe("Resolved", lookup.ips[1]),
                  lookups |-> 1]
            ELSE [ok |-> FALSE, probe |-> NoProbe, lookups |-> 1]

(* ------------------------------------------------------------- the probes *)

\* ping_inner and ping come to one of the three PingResult variants, to a hard
\* error ("Err", the Err(e) of the Result) or to a panic unwinding out of the
\* call ("Panic").  An awaited I/O operation comes back "ok" or "err"; a
\* resolution can also succeed with no address ("empty"), and a response can
\* lack its peer address ("no_peer").
Ok_Results == {"Success", "Failure", "Timeout"}

\* ping_inner suspended at await point s / returned r at step `at`.
Next_(s) == [done |-> FALSE, val |-> s, at |-> "-"]
Done_(r, at) == [done |-> TRUE, val |-> r, at |-> at]

\* Mutant: an https URL is connected like an http one.
HyperPinger_ping_inner_NoTls(probe, step, io) ==
    CASE step = "resolve" ->
            (CASE io = "ok" -> Next_("connect")
               [] io = "empty" -> Done_("Panic", step)
               [] OTHER -> Done_("Failure", step))
      [] step = "connect" ->
            IF io = "ok" THEN Next_("handshake") ELSE Done_("Failure", step)
      [] step = "tls" ->
            IF io = "ok" THEN Next_("handshake") ELSE Done_("Failure", step)
      [] step = "handshake" ->
            IF io = "ok" THEN Next_("driver") ELSE Done_("Failure", step)
      [] step = "driver" ->
            IF io = "err" THEN Done_("Err", step) ELSE Next_("response")
      [] step = "response" ->
            IF io = "ok" THEN Done_("Success", step) ELSE Done_("Err", step)

\* HyperPinger::ping_inner, resumed at await point `step` with `io`.
\* connect_tls / connect_http: resolve, TCP connect, (TLS), HTTP handshake;
\* any `?` there is wrapped by wrap_soft_err.  Then handle.await (only a
\* JoinError, "err", is looked at: the connection's own error, "conn_err",
\* is dropped) and res.await.
HyperPinger_ping_inner(probe, step, io) ==
    CASE step = "resolve" ->
            (CASE io = "ok" -> Next_("connect")
               [] io = "empty" -> Done_("Panic", step)
               [] OTHER -> Done_("Failure", step))
      [] step = "connect" ->
            IF io = "ok"
            THEN (IF probe.scheme = "https" THEN Next_("tls") ELSE Next_("handshake"))
            ELSE Done_("Failure", step)
      [] step = "tls" ->
            IF io = "ok" THEN Next_("handshake") ELSE Done_("Failure", step)
      [] step = "handshake" ->
            IF io = "ok" THEN Next_("driver") ELSE Done_("Failure", step)
      [] step = "driver" ->
            IF io = "err" THEN Done_("Err", step) ELSE Next_("response")
      [] step = "response" ->
            IF io = "ok" THEN Done_("Success", step) ELSE Done_("Err", step)

HyperIo(step) ==
    CASE step = "resolve" -> {"ok", "err", "empty"}
      [] step = "driver" -> {"ok", "err", "conn_err"}
      [] OTHER -> {"ok", "err"}

\* Mutant: the elapsed deadline is reported as a soft error.
HyperPinger_ping_ElapsedAsFailure(inner) ==
    IF inner = "Elapsed" THEN "Failure" ELSE inner

\* HyperPinger::ping: timeout_at around ping_inner.
HyperPinger_ping(inner) == IF inner = "Elapsed" THEN "Timeout" ELSE inner

\* ReqwestPinger::ping_inner: one await, builder.send().
ReqwestPinger_ping_inner(probe, step, io) ==
    CASE io = "ok" -> Done_("Success", step)
      [] io = "no_peer" -> Done_("Panic", step)
      [] OTHER -> Done_("Failure", step)

ReqwestIo(step) == {"ok", "err", "no_peer"}

\* builder.send() of the pooled client fails at once for a URL that is
\* neither http nor https.
ReqwestSchemeIo(probe, step) ==
    IF probe.scheme \in {"http", "https"} THEN ReqwestIo(step) ELSE {"err"}

\* ReqwestPinger::ping: timeout around ping_inner.
ReqwestPinger_ping(inner) == IF inner = "Elapsed" THEN "Timeout" ELSE inner

\* The local socket allocation of TcpPinger::ping_inner (TcpSocket::new_v4()?
\* or new_v6()?), which runs without an await once the address is known.
TcpSocket_new(sock) == IF sock THEN Next_("connect") ELSE Done_("Err", "socket")

\* Mutant: every attempt resolves, whatever the policy.
TcpPinger_ping_begin_AlwaysResolves(probe, sock) == Next_("resolve")

\* TcpPinger::ping_inner up to its first await.
TcpPinger_ping_begin(probe, sock) ==
    IF probe.policy = "Always" THEN Next_("resolve") ELSE TcpSocket_new(sock)

\* TcpPinger::ping_inner, resumed at await point `step` with `io`.
TcpPinger_ping_inner(probe, step, io, sock) ==
    CASE step = "resolve" ->
            IF io = "ok" THEN TcpSocket_new(sock) ELSE Done_("Failure", step)
      [] step = "connect" ->
            IF io = "ok" THEN Done_("Success", step) ELSE Done_("Failure", step)

\* Mutant: the resolution duration is never stored.
TcpPinger_resolve_time_Never(rt, step, io) == rt

\* ping_inner's local resolve_time after the await at `step` came back with
\* `io`: `resolve_time = Some(begin.elapsed())` in the Ok arm of resolve_addr.
TcpPinger_resolve_time(rt, step, io) ==
    IF step = "resolve" /\ io = "ok" THEN "Some" ELSE rt

\* ping_inner's `begin = Instant::now()`, taken on entry, on the attempt's
\* clock.
TcpPinger_begin == 0

\* Instant::elapsed.
Instant_elapsed(now, since) == now - since

\* `established_time = begin.elapsed()` once connect has returned.
TcpPinger_established_time(now) == Instant_elapsed(now, TcpPinger_begin)

TcpIo(step) == IF step = "resolve" THEN {"ok", "err", "empty"} ELSE {"ok", "err"}

\* TcpPinger::ping: timeout around ping_inner; Ok(Err(e)) panics.
TcpPinger_ping(inner) ==
    CASE inner = "Elapsed" -> "Timeout"
      [] inner = "Err" -> "Panic"
      [] OTHER -> inner

\* The first await point of an attempt.
FirstStep(probe) == IF probe.backend = "Hyper" THEN "resolve" ELSE "send"

\* Dispatch on the probe kind (HttpPingerImpl::ping / TcpPinger::ping).
PingInner(probe, step, io, sock) ==
    CASE probe.backend = "Hyper" -> HyperPinger_ping_inner(probe, step, io)
      [] probe.backend = "Reqwest" -> ReqwestPinger_ping_inner(probe, step, io)
      [] probe.backend = "Tcp" -> TcpPinger_ping_inner(probe, step, io, sock)

Ping(probe, inner) ==
    CASE probe.backend = "Hyper" -> HyperPinger_ping(inner)
      [] probe.backend = "Reqwest" -> ReqwestPinger_ping(inner)
      [] probe.backend = "Tcp" -> TcpPinger_ping(inner)

StepIo(probe, step) ==
    CASE probe.backend = "Hyper" -> HyperIo(step)
      [] probe.backend = "Reqwest" -> ReqwestSchemeIo(probe, step)
      [] probe.backend = "Tcp" -> TcpIo(step)

(* ---------------------------------------------------------- the aggregator *)

\* Mutant: a Timeout is classified as a Failure.
LabelResponse_TimeoutAsFailure(res) ==
    CASE res = "Success" -> "Success"
      [] res = "Failure" -> "Failure"
      [] res = "Timeout" -> "Failure"

\* The `response` field of HttpPingLabel::from / TcpPingLabel::from.
LabelResponse(res) ==
    CASE res = "Success" -> "Success"
      [] res = "Failure" -> "Failure"
      [] res = "Timeout" -> "Timeout"

\* record_http_ping / record_tcp_ping: the label the outcome is counted under.
record_ping(t, res) == [target |-> t, response |-> LabelResponse(res)]

(* ----------------------------------------------------------- the scheduler *)

Retries(t) == IF Class(t) = "http" THEN config.http.retries ELSE config.tcp.retries

\* How an attempt ended: ping()'s result, whether the timer or ping_inner
\* ended it, the step (with its I/O result) it ended at, and what the timeout
\* wrapper got ("Elapsed", or ping_inner's result).  A TCP Success carries
\* ping_inner's resolve_time.
Outcome(probe, inner, by, step, io, rt, now) ==
    LET success == probe.backend = "Tcp" /\ Ping(probe, inner) = "Success" IN
    [res |-> Ping(probe, inner), by |-> by, step |-> step, io |-> io,
     inner |-> inner,
     resolve_time |-> IF success THEN rt ELSE "-",
     established_time |-> IF success THEN TcpPinger_established_time(now)
                          ELSE "-"]

RECURSIVE ForLoop(_, _, _)
RECURSIVE MatchPing(_, _, _, _)
RECURSIVE BeginPing(_, _, _)

\* Mutant: the body runs once before the bound is looked at.
ForLoop_AtLeastOnce(t, ts, retries) ==
    IF ts.attempt < retries \/ ts.attempt = 0
    THEN BeginPing(t, [ts EXCEPT !.attempt = @ + 1], retries)
    ELSE {[ts EXCEPT !.pc = "idle", !.step = "-"]}

\* `for _ in 0..retries`: the next iteration, or the end of the tick.  The
\* result is the set of local states the task can be suspended in next.
ForLoop(t, ts, retries) ==
    IF ts.attempt < retries
    THEN BeginPing(t, [ts EXCEPT !.attempt = @ + 1], retries)
    ELSE {[ts EXCEPT !.pc = "idle", !.step = "-"]}

\* Mutant: the `break` after recording is missing.
MatchPing_NoBreak(t, ts, retries, o) ==
    LET ts1 == [ts EXCEPT !.outcomes = Append(@, o.res), !.last = o,
                          !.step = "-", !.inflight = @ - 1] IN
    CASE o.res \in Ok_Results ->
            ForLoop(t, [ts1 EXCEPT !.recorded = Append(@, record_ping(t, o.res))],
                    retries)
      [] o.res = "Err" -> ForLoop(t, ts1, retries)
      [] o.res = "Panic" -> {[ts1 EXCEPT !.pc = "panicked"]}

\* `match pinger.ping().await`: Ok(response) is recorded and breaks the loop,
\* Err(e) is logged and the loop goes on; a panic ends the task.
MatchPing(t, ts, retries, o) ==
    LET ts1 == [ts EXCEPT !.outcomes = Append(@, o.res), !.last = o,
                          !.step = "-", !.inflight = @ - 1] IN
    CASE o.res \in Ok_Results ->
            {[ts1 EXCEPT !.recorded = Append(@, record_ping(t, o.res)),
                         !.pc = "idle"]}
      [] o.res = "Err" -> ForLoop(t, ts1, retries)
      [] o.res = "Panic" -> {[ts1 EXCEPT !.pc = "panicked"]}

\* A probe's own resolver call is made on entering the step "resolve".
Resolving(ts, step) ==
    [ts EXCEPT !.pc = "ping", !.step = step,
               !.resolves = IF step = "resolve" THEN @ + 1 ELSE @,
               !.connect_begin = IF step = "connect" THEN ts.clock ELSE @,
               !.trace = Append(@, step)]

\* pinger.ping() up to its first await.
BeginPing(t, ts, retries) ==
    LET ts0 == [ts EXCEPT !.inflight = @ + 1, !.resolve_time = "None",
                          !.clock = 0, !.connect_begin = 0,
                          !.trace = <<>>] IN
    IF ts.probe.backend = "Tcp"
    THEN UNION {
            LET b == TcpPinger_ping_begin(ts.probe, sock) IN
            IF b.done
            THEN MatchPing(t, ts0, retries,
                           Outcome(ts.probe, b.val, "inner", b.at, "err", "None",
                                   0))
            ELSE {Resolving(ts0, b.val)}
            : sock \in BOOLEAN}
    ELSE {Resolving(ts0, FirstStep(ts.probe))}

ProcessAlive == pcMain \notin {"rejected", "exited"}

\* Mutant: the cancel branch does not leave the loop.
SelectCancelled_KeepsLooping(t) ==
    /\ ProcessAlive
    /\ task[t].pc = "idle"
    /\ cancelled
    /\ task' = [task EXCEPT ![t].pc = "idle"]
    /\ UNCHANGED <<config, pcMain, next, rejectedBy, cancelled, lib>>

\* tokio::select!, branch cancel.cancelled(): the loop breaks.
SelectCancelled(t) ==
    /\ ProcessAlive
    /\ task[t].pc = "idle"
    /\ cancelled
    /\ task' = [task EXCEPT ![t].pc = "done"]
    /\ UNCHANGED <<config, pcMain, next, rejectedBy, cancelled, lib>>

\* Mutant: the tick branch is also taken while an attempt is running.
SelectTick_WhileInFlight(t) ==
    /\ ProcessAlive
    /\ task[t].pc \in {"idle", "ping"}
    /\ \E ns \in ForLoop(t, [task[t] EXCEPT !.attempt = 0, !.outcomes = <<>>,
                                !.last = NoOutcome, !.recorded = <<>>,
                                !.resolves = 0, !.atCancel = 0,
                                !.ticked = TRUE],
                          Retries(t)) :
            task' = [task EXCEPT ![t] = ns]
    /\ UNCHANGED <<config, pcMain, next, rejectedBy, cancelled, lib>>

\* tokio::select!, branch tick.tick(): a tick begins.
SelectTick(t) ==
    /\ ProcessAlive
    /\ task[t].pc = "idle"
    /\ \E ns \in ForLoop(t, [task[t] EXCEPT !.attempt = 0, !.outcomes = <<>>,
                                !.last = NoOutcome, !.recorded = <<>>,
                                !.resolves = 0, !.atCancel = 0,
                                !.ticked = TRUE],
                          Retries(t)) :
            task' = [task EXCEPT ![t] = ns]
    /\ UNCHANGED <<config, pcMain, next, rejectedBy, cancelled, lib>>

\* An awaited operation inside ping_inner completes before the deadline.
Resume(t) ==
    /\ ProcessAlive
    /\ task[t].pc = "ping"
    /\ \E io \in StepIo(task[t].probe, task[t].step), sock \in BOOLEAN :
            LET r == PingInner(task[t].probe, task[t].step, io, sock)
                rt == IF task[t].probe.backend = "Tcp"
                      THEN TcpPinger_resolve_time(task[t].resolve_time,
                                                  task[t].step, io)
                      ELSE task[t].resolve_time
                now == IF task[t].probe.backend = "Tcp"
                       THEN task[t].clock + 1 ELSE task[t].clock
                ts == [task[t] EXCEPT !.resolve_time = rt, !.clock = now] IN
            IF r.done
            THEN \E ns \in MatchPing(t, ts, Retries(t),
                        Outcome(task[t].probe, r.val, "inner", r.at,
                                IF r.at = "socket" THEN "err" ELSE io, rt, now)) :
                    task' = [task EXCEPT ![t] = ns]
            ELSE task' = [task EXCEPT ![t] = Resolving(ts, r.val)]
    /\ UNCHANGED <<config, pcMain, next, rejectedBy, cancelled, lib>>

\* The deadline of tokio::time::timeout passes while ping_inner is suspended:
\* ping_inner is dropped where it is.
Elapse(t) ==
    /\ ProcessAlive
    /\ task[t].pc = "ping"
    /\ \E ns \in MatchPing(t, task[t], Retries(t),
                Outcome(task[t].probe, "Elapsed", "timer", task[t].step, "-",
                        task[t].resolve_time, task[t].clock)) :
            task' = [task EXCEPT ![t] = ns]
    /\ UNCHANGED <<config, pcMain, next, rejectedBy, cancelled, lib>>

(* -------------------------------------------------------------------- main *)

\* Mutant: the HTTP interval is not checked.
HttpIntervalRejected_Never(c) == FALSE

\* `if http_interval < http_timeout`.
HttpIntervalRejected(c) == c.interval_millis < c.timeout_millis

\* Mutant: an interval equal to the timeout is rejected too.
TcpIntervalRejected_Le(c) == c.interval_millis <= c.timeout_millis

\* `if tcp_interval < tcp_timeout`.
TcpIntervalRejected(c) == c.interval_millis < c.timeout_millis

Spawned(probe) == [NoTask EXCEPT !.pc = "idle", !.probe = probe]

\* main, "Create HTTP ping tasks": the interval check.
HttpCheck ==
    /\ pcMain = "http"
    /\ IF config.http.entries = <<>>
       THEN pcMain' = "tcp" /\ UNCHANGED rejectedBy
       ELSE IF HttpIntervalRejected(config.http)
       THEN pcMain' = "rejected" /\ rejectedBy' = "http"
       ELSE pcMain' = "http_entries" /\ UNCHANGED rejectedBy
    /\ next' = 1
    /\ UNCHANGED <<config, cancelled, task, lib>>

\* Mutant: a failed construction ends the loop over the HTTP entries.
create_http_ping_task_StopsAtFailure ==
    /\ pcMain = "http_entries"
    /\ LET entry == config.http.entries[next]
           r == IF config.http.pinger = "Hyper"
                THEN HyperPinger_new(entry) ELSE ReqwestPinger_new(entry) IN
       /\ task' = IF r.ok
                  THEN [task EXCEPT ![<<"http", next>>] = Spawned(r.probe)]
                  ELSE task
       /\ IF next = Len(config.http.entries) \/ ~r.ok
          THEN pcMain' = "tcp" /\ next' = 1
          ELSE pcMain' = pcMain /\ next' = next + 1
    /\ UNCHANGED <<config, rejectedBy, cancelled, lib>>

\* create_http_ping_task for entry `next`.
create_http_ping_task ==
    /\ pcMain = "http_entries"
    /\ LET entry == config.http.entries[next]
           r == IF config.http.pinger = "Hyper"
                THEN HyperPinger_new(entry) ELSE ReqwestPinger_new(entry) IN
       task' = IF r.ok THEN [task EXCEPT ![<<"http", next>>] = Spawned(r.probe)]
               ELSE task
    /\ IF next = Len(config.http.entries)
       THEN pcMain' = "tcp" /\ next' = 1
       ELSE pcMain' = pcMain /\ next' = next + 1
    /\ UNCHANGED <<config, rejectedBy, cancelled, lib>>

\* main, "Create TCP ping tasks": the interval check.
TcpCheck ==
    /\ pcMain = "tcp"
    /\ IF config.tcp.entries = <<>>
       THEN pcMain' = "wait" /\ UNCHANGED rejectedBy
       ELSE IF TcpIntervalRejected(config.tcp)
       THEN pcMain' = "rejected" /\ rejectedBy' = "tcp"
       ELSE pcMain' = "tcp_entries" /\ UNCHANGED rejectedBy
    /\ next' = 1
    /\ UNCHANGED <<config, cancelled, task, lib>>

\* create_tcp_ping_task for entry `next`.
create_tcp_ping_task ==
    /\ pcMain = "tcp_entries"
    /\ \E lookup \in Lookups :
          LET r == TcpPinger_new(config.tcp.entries[next], lookup) IN
          task' = [task EXCEPT ![<<"tcp", next>>] =
                      [(IF r.ok THEN Spawned(r.probe) ELSE NoTask)
                          EXCEPT !.lookups = r.lookups,
                                 !.answer = IF r.lookups > 0 THEN lookup.ips
                                            ELSE <<>>]]
    /\ IF next = Len(config.tcp.entries)
       THEN pcMain' = "wait" /\ next' = 1
       ELSE pcMain' = pcMain /\ next' = next + 1
    /\ UNCHANGED <<config, rejectedBy, cancelled, lib>>

\* main's tail: every ping task has ended, and so have the metrics server and
\* the cancel task, which both end only on cancellation.
MainJoin ==
    /\ pcMain = "wait"
    /\ cancelled
    /\ \A t \in Tasks : task[t].pc \in {"none", "done", "panicked"}
    /\ pcMain' = "exited"
    /\ UNCHANGED <<config, next, rejectedBy, cancelled, task, lib>>

\* cancel_handler: Ctrl+C cancels the token.
Cancel ==
    /\ ProcessAlive
    /\ ~cancelled
    /\ cancelled' = TRUE
    /\ task' = [t \in Tasks |->
                    IF task[t].pc = "ping"
                    THEN [task[t] EXCEPT !.atCancel = task[t].attempt]
                    ELSE task[t]]
    /\ UNCHANGED <<config, pcMain, next, rejectedBy, lib>>

(* ------------------------------------------------- TCP address normalization *)

\* The text handed to TcpPinger::normalize_address, by its lexical parts:
\*   [scheme "://"] [userinfo "@"] host [":" port] [path] ["?" query] ["#" fragment]
\* An absent part is "".  "host:1" is [host |-> "host", port |-> "1"] with
\* every other part absent.
AddressTexts ==
    [scheme : {"", "http", "tcp"}, userinfo : {"", "user:pass"},
     host : {"host", "203.0.113.5"}, port : {"", "1", "80"},
     path : {"", "/path"}, query : {"", "x=1"}, fragment : {"", "f"}]

NoUrl ==
    [scheme |-> "", username |-> "", password |-> "None", host |-> "None",
     port |-> "None", path |-> "", query |-> "None", fragment |-> "None"]

Opt(part) == IF part = "" THEN "None" ELSE part

\* Url::parse without a base URL.  The parser first looks for a scheme: a
\* leading ASCII letter, then letters, digits, "+", "-" or "." up to a ":".
\*   - text with "://": the authority is split into credentials, host and
\*     port; for http the default port 80 is dropped and an empty path
\*     becomes "/";
\*   - text with no "://": the word before the first ":" is taken as the
\*     scheme and what follows it as an opaque path, so there is no host and
\*     no port; text that starts with a digit, or has no ":", has no scheme
\*     and fails as a relative URL without a base.
Url_parse(a) ==
    CASE a.scheme = "http" ->
            [ok |-> TRUE,
             url |-> [scheme |-> "http",
                      username |-> IF a.userinfo = "" THEN "" ELSE "user",
                      password |-> IF a.userinfo = "" THEN "None" ELSE "pass",
                      host |-> a.host,
                      port |-> IF a.port \in {"", "80"} THEN "None" ELSE a.port,
                      path |-> IF a.path = "" THEN "/" ELSE a.path,
                      query |-> Opt(a.query), fragment |-> Opt(a.fragment)]]
      [] a.scheme = "tcp" ->
            [ok |-> TRUE,
             url |-> [scheme |-> "tcp",
                      username |-> IF a.userinfo = "" THEN "" ELSE "user",
                      password |-> IF a.userinfo = "" THEN "None" ELSE "pass",
                      host |-> a.host, port |-> Opt(a.port), path |-> a.path,
                      query |-> Opt(a.query), fragment |-> Opt(a.fragment)]]
      [] OTHER ->
            LET word == IF a.userinfo = "" THEN a.host ELSE "user"
                colon == a.userinfo # "" \/ a.port # "" IN
            IF word = "203.0.113.5" \/ ~colon
            THEN [ok |-> FALSE, url |-> NoUrl]
            ELSE [ok |-> TRUE,
                  url |-> [NoUrl EXCEPT
                            !.scheme = word,
                            !.path = IF a.userinfo = "" THEN a.port
                                     ELSE "pass@host",
                            !.query = Opt(a.query),
                            !.fragment = Opt(a.fragment)]]

\* TcpPinger::normalize_address: Ok(url), or the check that rejected it.
normalize_address(address) ==
    LET p == Url_parse(address)
        url == p.url
        Err(why) == [ok |-> FALSE, why |-> why, url |-> NoUrl] IN
    CASE ~p.ok -> Err("parse")
      [] url.host = "None" -> Err("host")
      [] url.port = "None" -> Err("port")
      [] url.scheme # "" -> Err("scheme")
      [] url.path # "" -> Err("path")
      [] url.query # "None" -> Err("query")
      [] url.fragment # "None" -> Err("fragment")
      [] url.username # "" \/ url.password # "None" -> Err("credentials")
      [] OTHER -> [ok |-> TRUE, why |-> "-", url |-> url]

NoAddress ==
    [scheme |-> "", userinfo |-> "", host |-> "host", port |-> "",
     path |-> "", query |-> "", fragment |-> ""]

NoNorm == [pc |-> "none", address |-> NoAddress, ok |-> FALSE, why |-> "-"]

\* normalize_address is called with the address drawn at the start.
Normalize ==
    /\ norm.pc = "call"
    /\ LET r == normalize_address(norm.address) IN
       norm' = [norm EXCEPT !.pc = "returned", !.ok = r.ok, !.why = r.why]
    /\ UNCHANGED <<config, pcMain, next, rejectedBy, cancelled, task, timed,
                   metrics, labelled>>

(* ------------------------------------------------------ the timing resolver *)

ResolveNames == {"n1", "n2"}

\* What the wrapped resolver's future comes to: Ok(addresses) or Err(e).
ResolveResults ==
    {[ok |-> TRUE, addrs |-> q, err |-> "-"] : q \in IpSeqs}
        \cup {[ok |-> FALSE, addrs |-> <<>>, err |-> e] : e \in {"e1", "e2"}}

NoResult == [ok |-> FALSE, addrs |-> <<>>, err |-> "-"]

\* Mutant: every observation is reported as a success.
report_time_AlwaysSuccess(name, err) ==
    [host |-> name, class |-> "success", err |-> "None"]

\* TimeReporter::report_time for PingMetrics: with an error the failure
\* counter of (host, error) goes up, without one the time is observed.
report_time(name, err) ==
    [host |-> name, class |-> IF err # "None" THEN "failure" ELSE "success",
     err |-> err]

\* `match &result`: the error handed to report_time.
ReportedErr(result) == IF result.ok THEN "None" ELSE result.err

\* One call of TimedResolver::resolve:
\*   pc         "await" (the returned future is pending) | "returned"
\*              | "dropped" (the caller dropped the future)
\*   delegated  the names handed to the wrapped resolver
\*   wrapped    what the wrapped resolver's future came to
\*   returned   what the call returned
NoTimed == [calls |-> <<>>, reports |-> <<>>]

\* TimedResolver::resolve up to the returned future's first poll: the
\* wrapped resolver is called once.
TimedResolver_resolve ==
    /\ Len(timed.calls) < MaxResolves
    /\ \E name \in ResolveNames :
          timed' = [timed EXCEPT !.calls =
                        Append(@, [name |-> name, pc |-> "await",
                                   delegated |-> <<name>>,
                                   wrapped |-> NoResult, returned |-> NoResult])]
    /\ UNCHANGED <<config, pcMain, next, rejectedBy, cancelled, task, norm,
                   metrics, labelled>>

\* `fut.await` completes: the time is reported and the result handed back.
TimedResolver_await ==
    /\ \E i \in DOMAIN timed.calls, result \in ResolveResults :
          /\ timed.calls[i].pc = "await"
          /\ timed' =
                [calls |-> [timed.calls EXCEPT ![i].pc = "returned",
                                               ![i].wrapped = result,
                                               ![i].returned = result],
                 reports |-> Append(timed.reports,
                                [call |-> i,
                                 report |-> report_time(timed.calls[i].name,
                                                        ReportedErr(result))])]
    /\ UNCHANGED <<config, pcMain, next, rejectedBy, cancelled, task, norm,
                   metrics, labelled>>

\* The caller drops the future before it completes (its timeout expired).
TimedResolver_drop ==
    /\ \E i \in DOMAIN timed.calls :
          /\ timed.calls[i].pc = "await"
          /\ timed' = [timed EXCEPT !.calls[i].pc = "dropped"]
    /\ UNCHANGED <<config, pcMain, next, rejectedBy, cancelled, task, norm,
                   metrics, labelled>>

(* ---------------------------------------------------- the metrics aggregator *)

\* `recent_pings.len() == 1000`: the size at which the history drops its
\* oldest record.
HistoryCap == 1000

\* response_time.as_millis() / established_time.as_millis() of a Success.
Latencies == {1, 2}

\* SystemTime::now() as seconds, at the moment a record call reads it.
Times == {"t1", "t2"}

\* A Family<Label, _> without series.
EmptyFamily == [l \in {} |-> 0]

\* Mutant: creating a series drops the others.
Family_get_or_create_Fresh(family, label) == [l \in {label} |-> 0]

\* Family::get_or_create: the series under `label`, created at 0 when it
\* is not there; the other series are kept.
Family_get_or_create(family, label) ==
    [l \in DOMAIN family \cup {label} |->
        IF l \in DOMAIN family THEN family[l] ELSE 0]

\* Mutant: the counter goes up by two.
Counter_inc_ByTwo(family, label) == [family EXCEPT ![label] = @ + 2]

\* Counter::inc on the series under `label` (an atomic fetch_add).
Counter_inc(family, label) == [family EXCEPT ![label] = @ + 1]

\* Gauge::set on the series under `label`.
Gauge_set(family, label, v) == [family EXCEPT ![label] = v]

\* Mutant: the latency of every outcome is recorded.
RecordsLatency_Always(res) == TRUE

\* `if let PingResult::Success { .. } = &response.result`.
RecordsLatency(res) == res = "Success"

\* Mutant: the newest record goes when the history is full.
VecDeque_push_DropsNewest(recent, record) ==
    Append(IF Len(recent) = HistoryCap THEN SubSeq(recent, 1, Len(recent) - 1)
           ELSE recent, record)

\* The history update: the oldest record goes when the history is full.
VecDeque_push(recent, record) ==
    Append(IF Len(recent) = HistoryCap THEN Tail(recent) ELSE recent, record)

\* `started` counts the record calls entered in a run, of which there are
\* `limit` at most.
\* One call of record_http_ping / record_tcp_ping by the task of a target:
\*   pc   "idle" | "count" (before the counter is incremented)
\*        | "history" (before the timestamp and the history are updated)
NoRecordCall == [pc |-> "idle", res |-> "-", latency |-> 0]

NoMetrics ==
    [total |-> [p \in {"http", "tcp"} |-> EmptyFamily],
     response_time_ms |-> [p \in {"http", "tcp"} |-> EmptyFamily],
     recent |-> [p \in {"http", "tcp"} |-> <<>>],
     last_ping_timestamp |-> "-",
     call |-> [t \in Tasks |-> NoRecordCall],
     started |-> 0,
     limit |-> MaxRecords,
     completed |-> [p \in {"http", "tcp"} |-> 0]]

\* The label of the call in progress for task t.
CallLabel(t) == record_ping(t, metrics.call[t].res)

\* record_*_ping is entered with an outcome of ping(): the label is built
\* and, for a Success, the response time gauge of the label is set.
RecordGauge(t) ==
    /\ metrics.call[t].pc = "idle"
    /\ metrics.started < metrics.limit
    /\ \E res \in Ok_Results, latency \in Latencies :
          LET label == record_ping(t, res)
              p == Class(t) IN
          metrics' =
            [metrics EXCEPT
                !.call[t] = [pc |-> "count", res |-> res,
                             latency |-> IF RecordsLatency(res) THEN latency
                                         ELSE 0],
                !.started = @ + 1,
                !.response_time_ms[p] =
                    IF RecordsLatency(res)
                    THEN Gauge_set(Family_get_or_create(@, label), label, latency)
                    ELSE @]
    /\ UNCHANGED <<config, pcMain, next, rejectedBy, cancelled, task, norm,
                   timed, labelled>>

\* Mutant: an increment made while another call is on the same family is lost.
RecordCount_LosesUpdate(t) ==
    /\ metrics.call[t].pc = "count"
    /\ LET p == Class(t)
           busy == \E u \in Tasks \ {t} :
                      Class(u) = p /\ metrics.call[u].pc # "idle"
           family == Family_get_or_create(metrics.total[p], CallLabel(t)) IN
       metrics' =
         [metrics EXCEPT
             !.call[t].pc = "history",
             !.total[p] = IF busy THEN family
                          ELSE Counter_inc(family, CallLabel(t))]
    /\ UNCHANGED <<config, pcMain, next, rejectedBy, cancelled, task, norm,
                   timed, labelled>>

\* `self.http_ping_total.get_or_create(&label).inc()`.
RecordCount(t) ==
    /\ metrics.call[t].pc = "count"
    /\ LET p == Class(t) IN
       metrics' =
         [metrics EXCEPT
             !.call[t].pc = "history",
             !.total[p] = Counter_inc(Family_get_or_create(@, CallLabel(t)),
                                      CallLabel(t))]
    /\ UNCHANGED <<config, pcMain, next, rejectedBy, cancelled, task, norm,
                   timed, labelled>>

\* The timestamp is set and, for a Success, the history updated under its
\* lock; the call returns.
RecordHistory(t) ==
    /\ metrics.call[t].pc = "history"
    /\ \E now, pushed \in Times :
          LET p == Class(t)
              c == metrics.call[t] IN
          metrics' =
            [metrics EXCEPT
                !.call[t] = NoRecordCall,
                !.last_ping_timestamp = now,
                !.recent[p] =
                    IF RecordsLatency(c.res)
                    THEN VecDeque_push(@, [url |-> t, timestamp |-> pushed,
                                           response_time_ms |-> c.latency])
                    ELSE @,
                !.completed[p] = @ + 1]
    /\ UNCHANGED <<config, pcMain, next, rejectedBy, cancelled, task, norm,
                   timed, labelled>>

\* The aggregator after n Successes of protocol p, recorded in turn for its
\* two targets with latencies 1, 1, 2, 1, 1, 2, ..: n counted, n returned
\* calls, n records in the history, which was not full before.
Recorded(p, n) ==
    LET success(k) == [target |-> <<p, k>>, response |-> "Success"]
        of(i) == (i % 2) + 1
        latency(i) == IF i % 3 = 0 THEN 2 ELSE 1
        last(k) == IF of(n) = k THEN n ELSE n - 1 IN
    [NoMetrics EXCEPT
        !.total[p] = [l \in {success(1), success(2)} |->
                        Cardinality({i \in 1..n : success(of(i)) = l})],
        !.response_time_ms[p] =
            [l \in {success(1), success(2)} |->
                IF l = success(1) THEN latency(last(1)) ELSE latency(last(2))],
        !.recent[p] = [i \in 1..n |->
                        [url |-> <<p, of(i)>>, timestamp |-> "t1",
                         response_time_ms |-> latency(i)]],
        !.last_ping_timestamp = "t1",
        !.completed[p] = n]

(* ------------------------------------------------------ the HTTP metric label *)

\* The methods an HTTP entry is configured with (HttpPingerEntry.method).
HttpMethods == {"GET", "HEAD"}

\* The URLs of the probes whose responses are labelled.
ResponseUrls == {"u1", "u2"}

\* http_pinger::PingResponse, as ping() returns it: the probe's URL and
\* method, the peer's ip, the result.
HttpPingResponses ==
    [url : ResponseUrls, method : HttpMethods, ip : {"None", "ip"},
     result : Ok_Results]

\* impl From<http_pinger::PingResponse> for HttpPingLabel.
HttpPingLabel_from(response) ==
    [url |-> response.url,
     method |-> "HEAD",
     ip |-> response.ip,
     response |-> LabelResponse(response.result),
     version |-> IF response.result = "Success" THEN "HTTP/1.1" ELSE "None",
     status_code |-> IF response.result = "Success" THEN "200" ELSE "None"]

NoLabelled == [pc |-> "-", responses |-> <<>>, total |-> EmptyFamily]

\* record_http_ping's counter update for the next of the responses.
record_http_ping_total ==
    /\ labelled.pc \in {"first", "second"}
    /\ LET response ==
             labelled.responses[IF labelled.pc = "first" THEN 1 ELSE 2]
           label == HttpPingLabel_from(response) IN
       labelled' =
         [labelled EXCEPT
             !.pc = IF @ = "first" THEN "second" ELSE "done",
             !.total = Counter_inc(Family_get_or_create(@, label), label)]
    /\ UNCHANGED <<config, pcMain, next, rejectedBy, cancelled, task, norm,
                   timed, metrics>>

(* ----------------------------------------------------------- specification *)

AtMostOneEach(c) == Len(c.http.entries) <= 1 /\ Len(c.tcp.entries) <= 1

\* The scheduler's specification starts from the configurations whose
\* intervals pass main's checks with the smallest values, with at most one
\* target per class.
SchedulerConfigs ==
    {c \in PingerConfig :
        /\ AtMostOneEach(c)
        /\ c.http.interval_millis = 1 /\ c.http.timeout_millis = 1
        /\ c.tcp.interval_millis = 1 /\ c.tcp.timeout_millis = 1}

\* The start-up specification draws every interval and timeout, with one
\* attempt per tick and at most one target per class.
StartupConfigs ==
    {c \in PingerConfig :
        AtMostOneEach(c) /\ c.http.retries = 1 /\ c.tcp.retries = 1}

\* The fleet specification has two targets of one class and none of the
\* other, with one attempt per tick and intervals that pass main's checks.
FleetConfigs ==
    {c \in PingerConfig :
        /\ c.http.retries = 1 /\ c.tcp.retries = 1
        /\ c.http.interval_millis = 1 /\ c.http.timeout_millis = 1
        /\ c.tcp.interval_millis = 1 /\ c.tcp.timeout_millis = 1
        /\ \/ Len(c.http.entries) = 2 /\ c.tcp.entries = <<>>
           \/ Len(c.tcp.entries) = 2 /\ c.http.entries = <<>>}

\* The shutdown specification: one attempt per tick, at most one target per
\* class, intervals that pass main's checks.
ShutdownConfigs ==
    {c \in SchedulerConfigs : c.http.retries = 1 /\ c.tcp.retries = 1}

\* A configuration without targets.
NoTargets ==
    [http |-> [pinger |-> "Hyper", retries |-> 0, timeout_millis |-> 1,
               interval_millis |-> 1, entries |-> <<>>],
     tcp |-> [retries |-> 0, timeout_millis |-> 1, interval_millis |-> 1,
              entries |-> <<>>]]

\* main before its first step, with the configuration load_config returned.
InitMain(configs) ==
    /\ config \in configs
    /\ pcMain = "http"
    /\ next = 1
    /\ rejectedBy = "-"
    /\ cancelled = FALSE
    /\ task = [t \in Tasks |-> NoTask]

InitWith(configs) ==
    /\ InitMain(configs)
    /\ norm = NoNorm /\ timed = NoTimed /\ metrics = NoMetrics
    /\ labelled = NoLabelled

Next ==
    \/ HttpCheck
    \/ create_http_ping_task
    \/ TcpCheck
    \/ create_tcp_ping_task
    \/ MainJoin
    \/ Cancel
    \/ \E t \in Tasks : SelectCancelled(t)
    \/ \E t \in Tasks : SelectTick(t)
    \/ \E t \in Tasks : Resume(t)
    \/ \E t \in Tasks : Elapse(t)

Init == InitWith(SchedulerConfigs)

InitStartup == InitWith(StartupConfigs)

InitFleet == InitWith(FleetConfigs)

InitShutdown == InitWith(ShutdownConfigs)

\* normalize_address on its own: the address is drawn at the start.
InitNormalize ==
    /\ InitMain({NoTargets})
    /\ norm \in {[NoNorm EXCEPT !.pc = "call", !.address = a] : a \in AddressTexts}
    /\ timed = NoTimed
    /\ metrics = NoMetrics
    /\ labelled = NoLabelled

NextNormalize == Normalize

\* The timing resolver on its own.
InitResolver == InitWith({NoTargets})

NextResolver ==
    \/ TimedResolver_resolve
    \/ TimedResolver_await
    \/ TimedResolver_drop

\* The aggregator on its own: the record calls of the tasks interleave.
InitMetrics == InitWith({NoTargets})

NextMetrics ==
    \/ \E t \in Tasks : RecordGauge(t)
    \/ \E t \in Tasks : RecordCount(t)
    \/ \E t \in Tasks : RecordHistory(t)

\* The labelling of two responses of HTTP probes, counted one after the other.
InitLabel ==
    /\ InitMain({NoTargets})
    /\ norm = NoNorm /\ timed = NoTimed /\ metrics = NoMetrics
    /\ labelled \in {[NoLabelled EXCEPT !.pc = "first", !.responses = <<a, b>>] :
                        a \in HttpPingResponses, b \in HttpPingResponses}

NextLabel == record_http_ping_total

\* The aggregator with the history of one protocol one record short of
\* full; `started` counts the calls from here on.
InitHistory ==
    /\ InitMain({NoTargets})
    /\ norm = NoNorm /\ timed = NoTimed /\ labelled = NoLabelled
    /\ metrics \in {[Recorded(p, HistoryCap - 1)
                        EXCEPT !.limit = MaxHistoryRecords] :
                     p \in {"http", "tcp"}}

Spec == Init /\ [][Next]_vars

StartSpec == InitStartup /\ [][Next]_vars

FleetSpec == InitFleet /\ [][Next]_vars

NormalizeSpec == InitNormalize /\ [][NextNormalize]_vars

ResolverSpec == InitResolver /\ [][NextResolver]_vars

MetricsSpec == InitMetrics /\ [][NextMetrics]_vars

LabelSpec == InitLabel /\ [][NextLabel]_vars

HistorySpec == InitHistory /\ [][NextMetrics]_vars

\* Scheduling for shutdown.  A task suspended in select! after the
\* cancellation has its cancel branch ready at every poll, and select!
\* picks among the ready branches at random: the branch is taken at one of
\* the times the task comes back to select!.  An attempt in flight ends:
\* one of its awaits completes or its deadline passes.
ShutdownFairness ==
    \A t \in Tasks :
        /\ SF_vars(SelectCancelled(t))
        /\ WF_vars(Resume(t) \/ Elapse(t))

ShutdownSpec == InitShutdown /\ [][Next]_vars /\ ShutdownFairness

(* ------------------------------------------------------------------ claims *)

Last(q) == q[Len(q)]

TickOver(t) == task[t].pc \in {"idle", "done"}

\* C1: a tick begins at most `retries` attempts, and begins none after an
\* attempt that came to Success or Timeout.
C1_TickBounded ==
    \A t \in Tasks :
        /\ task[t].attempt <= Retries(t)
        /\ Len(task[t].outcomes) <= task[t].attempt
        /\ \A k \in DOMAIN task[t].outcomes :
              task[t].outcomes[k] \in {"Success", "Timeout"} => k = task[t].attempt

\* Reached: one task used up its retries on hard errors while another, with
\* retries to spare, stopped after a Success.
C1_Witness ==
    \E t, u \in Tasks :
        /\ Retries(t) = 2 /\ task[t].outcomes = <<"Err", "Err">>
        /\ task[t].pc = "idle"
        /\ Retries(u) = 2 /\ task[u].outcomes = <<"Success">>
        /\ task[u].attempt = 1 /\ task[u].pc = "idle"

\* C2: a tick that ended on a Failure outcome has made `retries` attempts,
\* that is, a Failure with attempts to spare is followed by another attempt.
C2_FailureRetried ==
    \A t \in Tasks :
        (TickOver(t) /\ task[t].outcomes # <<>>
            /\ Last(task[t].outcomes) = "Failure")
        => task[t].attempt = Retries(t)

\* C3: every attempt ping() returned from, whatever it returned, was handed
\* to the aggregator exactly once.
C3_EveryAttemptRecorded ==
    \A t \in Tasks :
        Len(task[t].recorded)
            = Cardinality({k \in DOMAIN task[t].outcomes :
                              task[t].outcomes[k] # "Panic"})

\* C4: an attempt ended by the deadline, for any probe kind, comes to Timeout
\* at once: the task is no longer inside that attempt.
C4_ExpiryIsTimeout ==
    \A t \in Tasks :
        task[t].last.by = "timer"
        => /\ task[t].last.res = "Timeout"
           /\ Last(task[t].outcomes) = "Timeout"
           /\ TickOver(t)

\* Reached: an HTTP attempt and a TCP attempt both ended by the deadline, the
\* HTTP one during the wait for the response.
C4_Witness ==
    \E t \in HttpTasks, u \in TcpTasks :
        /\ task[t].last.by = "timer" /\ task[t].last.step \in {"response", "send"}
        /\ task[u].last.by = "timer" /\ task[u].last.step = "connect"

\* C5: a Timeout is the last attempt of its tick and is recorded under the
\* Timeout classification.
C5_TimeoutEndsTick ==
    \A t \in Tasks :
        \A k \in DOMAIN task[t].outcomes :
            task[t].outcomes[k] = "Timeout"
            => /\ k = task[t].attempt
               /\ TickOver(t)
               /\ task[t].recorded = <<[target |-> t, response |-> "Timeout"]>>

\* Reached: a tick with retries to spare ended after one attempt that timed out.
C5_Witness ==
    \E t \in Tasks :
        /\ Retries(t) = 2 /\ task[t].attempt = 1
        /\ task[t].outcomes = <<"Timeout">> /\ task[t].pc = "idle"

\* C6: in the raw HTTP backend an error at resolution, connect, TLS handshake,
\* HTTP handshake or request send / response makes ping() return a Failure.
C6_HyperErrorsAreSoft ==
    \A t \in Tasks :
        (/\ task[t].probe.backend = "Hyper"
         /\ task[t].last.by = "inner" /\ task[t].last.io = "err"
         /\ task[t].last.step \in
                {"resolve", "connect", "tls", "handshake", "response"})
        => task[t].last.res = "Failure"

\* C7: a TCP attempt whose local socket cannot be allocated comes to a Failure
\* and the task goes on.
C7_TcpFatalIsFailure ==
    \A t \in Tasks :
        (task[t].probe.backend = "Tcp" /\ task[t].last.step = "socket")
        => (task[t].last.res = "Failure" /\ task[t].pc # "panicked")

\* C8: absent cancellation, after any result of an attempt (Success, Failure,
\* an internal error, or the deadline) the task is waiting for a tick or
\* probing again.
C8_KeepsProbing ==
    \A t \in Tasks :
        (~cancelled
            /\ task[t].last.inner \in {"Success", "Failure", "Err", "Elapsed"})
        => task[t].pc \in {"idle", "ping"}

ClassConfig(c) == IF c = "http" THEN config.http ELSE config.tcp

\* main's positions after the interval check of a class has passed.
PastCheck(c) ==
    IF c = "http" THEN {"http_entries", "tcp", "tcp_entries", "wait", "exited"}
    ELSE {"tcp_entries", "wait", "exited"}

\* C9: for a class with entries, interval < timeout means main never gets past
\* that class's check and no task of the class is created; interval >= timeout
\* (equality included) is never rejected by that class's check.
C9_RejectedBeforeClassTasks ==
    \A c \in {"http", "tcp"} :
        ClassConfig(c).entries # <<>>
        => /\ ClassConfig(c).interval_millis < ClassConfig(c).timeout_millis
              => /\ pcMain \notin PastCheck(c)
                 /\ \A t \in Tasks : Class(t) = c => task[t].pc = "none"
           /\ ClassConfig(c).interval_millis >= ClassConfig(c).timeout_millis
              => rejectedBy # c

\* Reached: the TCP class is rejected for interval < timeout after the HTTP
\* class, with interval = timeout, was accepted and its task created.
C9_Witness ==
    /\ pcMain = "rejected" /\ rejectedBy = "tcp"
    /\ config.tcp.interval_millis < config.tcp.timeout_millis
    /\ config.http.interval_millis = config.http.timeout_millis
    /\ \E t \in HttpTasks : task[t].pc # "none"

\* C10 as stated: when the configuration is rejected, no task of either class
\* exists and no attempt has been made.
C10_NoTaskAtRejection ==
    pcMain = "rejected"
    => \A t \in Tasks : task[t].pc = "none" /\ task[t].attempt = 0

\* C10 amended: when the configuration is rejected, no TCP task exists; no
\* HTTP task exists if the HTTP class is the one rejected; HTTP tasks exist
\* only when the TCP class is rejected after the HTTP class passed its check.
C10_NoTaskOfRejectedClass ==
    pcMain = "rejected"
    => /\ \A t \in TcpTasks : task[t].pc = "none"
       /\ rejectedBy = "http" => \A t \in Tasks : task[t].pc = "none"
       /\ (\E t \in HttpTasks : task[t].pc # "none")
          => /\ rejectedBy = "tcp"
             /\ config.http.interval_millis >= config.http.timeout_millis

\* Reached: the TCP class is rejected while an HTTP task has already finished
\* an attempt.
C10_Witness ==
    /\ pcMain = "rejected" /\ rejectedBy = "tcp"
    /\ \E t \in HttpTasks : task[t].outcomes # <<>>

Entries(c) == ClassConfig(c).entries

\* The entry a task's target was configured with.
EntryOf(t) == Entries(Class(t))[t[2]]

Configured(t) == t[2] \in DOMAIN Entries(Class(t))

\* main has finished the construction of the target of task t.
Constructed(t) ==
    /\ Configured(t)
    /\ IF Class(t) = "http"
       THEN \/ pcMain \in {"tcp", "tcp_entries", "wait", "exited"}
            \/ pcMain = "http_entries" /\ next > t[2]
       ELSE \/ pcMain \in {"wait", "exited"}
            \/ pcMain = "tcp_entries" /\ next > t[2]

\* The entries whose construction fails whatever the resolver answers.
BadEntry(t) ==
    IF Class(t) = "http" THEN EntryOf(t).url \in {"invalid", "foo"}
    ELSE EntryOf(t).host = "bad"

\* The entries whose construction makes the one look-up at construction.
ResolvedOnce(t) ==
    Class(t) = "tcp" /\ EntryOf(t).host = "name" /\ ~EntryOf(t).always_resolve

\* C11: with intervals that pass main's checks, a target whose construction
\* failed has no task, main is not stopped by it, and every other target is
\* constructed from its own entry alone: it has a task unless its own
\* construction failed, whatever the entries around it are.
C11_BadTargetSkipped ==
    /\ pcMain # "rejected"
    /\ \A t \in Tasks :
          /\ ~Configured(t) => task[t].pc = "none"
          /\ Constructed(t) =>
                /\ BadEntry(t) => task[t].pc = "none"
                /\ (~BadEntry(t) /\ ~ResolvedOnce(t)) => task[t].pc # "none"
                /\ ResolvedOnce(t) =>
                      (task[t].pc # "none" <=> task[t].answer # <<>>)

\* Reached: the first of two targets of a class failed at construction and
\* the second has a task whose attempt was recorded.
C11_Witness ==
    \E c \in {"http", "tcp"} :
        /\ Len(Entries(c)) = 2 /\ BadEntry(<<c, 1>>)
        /\ task[<<c, 1>>].pc = "none"
        /\ task[<<c, 2>>].recorded # <<>>

\* C12: for a TCP target whose host is a literal IP, no DNS call is made at
\* construction and none in any attempt of any tick.
C12_LiteralIpNeverResolves ==
    \A t \in TcpTasks :
        (Configured(t) /\ EntryOf(t).host = "ip")
        => /\ task[t].lookups = 0
           /\ task[t].resolves = 0
           /\ task[t].step # "resolve"

\* Reached: a literal-IP target finished an attempt with Success.
C12_Witness ==
    \E t \in TcpTasks :
        /\ Configured(t) /\ EntryOf(t).host = "ip"
        /\ task[t].outcomes = <<"Success">> /\ task[t].pc = "idle"

\* C13: for a TCP name target with always_resolve, every Success carries a
\* resolution duration; without always_resolve, the only DNS call is the one
\* at construction and no outcome carries a resolution duration.
C13_ResolveTimeByPolicy ==
    \A t \in TcpTasks :
        (Configured(t) /\ EntryOf(t).host = "name")
        => IF EntryOf(t).always_resolve
           THEN task[t].last.res = "Success"
                    => task[t].last.resolve_time = "Some"
           ELSE /\ task[t].lookups <= 1
                /\ task[t].resolves = 0
                /\ task[t].step # "resolve"
                /\ task[t].last.resolve_time # "Some"

\* Reached: of two name targets, the one with always_resolve came to a
\* Success with a resolution duration, the other to a Success without one.
C13_Witness ==
    \E t, u \in TcpTasks :
        /\ Configured(t) /\ EntryOf(t).host = "name" /\ EntryOf(t).always_resolve
        /\ task[t].last.res = "Success" /\ task[t].last.resolve_time = "Some"
        /\ Configured(u) /\ EntryOf(u).host = "name" /\ ~EntryOf(u).always_resolve
        /\ task[u].last.res = "Success" /\ task[u].last.resolve_time = "None"
        /\ task[u].lookups = 1

\* The policy TcpPinger::new is to choose for the entry of task t.
ChosenAtConstruction(t) ==
    CASE EntryOf(t).host = "ip" ->
            task[t].probe.policy = "Resolved" /\ task[t].probe.addr = LiteralIp
      [] EntryOf(t).host = "name" /\ EntryOf(t).always_resolve ->
            task[t].probe.policy = "Always" /\ task[t].probe.addr = "-"
      [] OTHER ->
            /\ task[t].probe.policy = "Resolved"
            /\ task[t].answer # <<>>
            /\ task[t].probe.addr = task[t].answer[1]

\* C14: after every step, the policy of a TCP task is the one its entry
\* calls for (literal IP: Resolved(that IP); name with always_resolve:
\* Always; name without: Resolved(first address of the answer given at
\* construction)), and no step changes the probe of a task that has one.
C14_PolicyFixed ==
    [][\A t \in TcpTasks :
          /\ task[t].pc # "none" => task'[t].probe = task[t].probe
          /\ task'[t].pc # "none" => (ChosenAtConstruction(t))']_vars

\* Reached: a name target fixed to the first of two different addresses
\* finished a tick whose attempt came to a Failure.
C14_Witness ==
    \E t \in TcpTasks :
        /\ Configured(t) /\ task[t].pc = "idle"
        /\ Len(task[t].answer) = 2 /\ task[t].answer[1] # task[t].answer[2]
        /\ task[t].probe.addr = task[t].answer[1]
        /\ task[t].outcomes = <<"Failure">>

BothConstructed(c) ==
    /\ Len(Entries(c)) = 2 /\ Entries(c)[1] = Entries(c)[2]
    /\ task[<<c, 1>>].pc # "none" /\ task[<<c, 2>>].pc # "none"

\* C15 as stated: two probes constructed from the same entry have the same
\* effective address and resolve policy.
C15_SameInputSameProbe ==
    \A c \in {"http", "tcp"} :
        BothConstructed(c) => task[<<c, 1>>].probe = task[<<c, 2>>].probe

\* C15 amended: two probes constructed from the same entry have the same
\* kind and resolve policy; they have the same address for an HTTP target, a
\* literal IP and a name with always_resolve; for a name without
\* always_resolve each has the first address its own construction was
\* answered with, so the two agree when the two answers begin alike.
C15_SameInputSamePolicy ==
    \A c \in {"http", "tcp"} :
        BothConstructed(c)
        => LET p == task[<<c, 1>>] q == task[<<c, 2>>] IN
           /\ p.probe.backend = q.probe.backend
           /\ p.probe.scheme = q.probe.scheme
           /\ p.probe.policy = q.probe.policy
           /\ IF ResolvedOnce(<<c, 1>>)
              THEN /\ p.probe.addr = p.answer[1] /\ q.probe.addr = q.answer[1]
                   /\ p.answer[1] = q.answer[1] => p.probe = q.probe
              ELSE p.probe = q.probe

\* Reached: two tasks for the same name without always_resolve, fixed to
\* different addresses.
C15_Witness ==
    /\ BothConstructed("tcp") /\ ResolvedOnce(<<"tcp", 1>>)
    /\ task[<<"tcp", 1>>].probe.addr # task[<<"tcp", 2>>].probe.addr

\* A bare host:port, and a text with one of the parts that are to be refused.
BareHostPort(a) ==
    /\ a.scheme = "" /\ a.userinfo = "" /\ a.port # ""
    /\ a.path = "" /\ a.query = "" /\ a.fragment = ""

CarriesMore(a) ==
    \/ a.scheme # "" \/ a.userinfo # ""
    \/ a.path # "" \/ a.query # "" \/ a.fragment # ""

\* C16: normalize_address accepts every bare host:port ("host:1",
\* "203.0.113.5:443") and rejects every text with a scheme, a path, a query,
\* a fragment or credentials.
C16_NormalizeAddress ==
    norm.pc = "returned"
    => /\ BareHostPort(norm.address) => norm.ok
       /\ CarriesMore(norm.address) => ~norm.ok

\* C17: at most one call of ping() per task has not returned, and one is
\* outstanding exactly while the task is inside an attempt: a tick begins
\* only when no attempt of an earlier tick is left.
C17_OneAttemptInFlight ==
    \A t \in Tasks :
        /\ task[t].inflight \in {0, 1}
        /\ task[t].inflight = 1 <=> task[t].pc = "ping"

\* Reached: a task is inside the second attempt of a tick, after the first
\* one returned a hard error.
C17_Witness ==
    \E t \in Tasks :
        /\ task[t].pc = "ping" /\ task[t].attempt = 2
        /\ task[t].outcomes = <<"Err">> /\ task[t].inflight = 1

\* C18: a task that left its loop after the token was cancelled during one of
\* its attempts finished that attempt, and the attempt's outcome was handed
\* to the aggregator.
C18_CancelledAttemptRecorded ==
    \A t \in Tasks :
        (task[t].pc = "done" /\ task[t].atCancel > 0)
        => /\ Len(task[t].outcomes) >= task[t].atCancel
           /\ task[t].outcomes[task[t].atCancel] \in Ok_Results
           /\ task[t].recorded
                = <<record_ping(t, task[t].outcomes[task[t].atCancel])>>

\* C19: once the token is cancelled, a task waiting in select! takes no
\* step but leaving its loop: it begins no attempt.
C19_NoTickAfterCancel ==
    [][\A t \in Tasks :
          (cancelled /\ task[t].pc = "idle")
          => (task'[t] = task[t] \/ task'[t].pc = "done")]_vars

\* The observations reported for call i.
ReportsOf(i) == {k \in DOMAIN timed.reports : timed.reports[k].call = i}

\* C20: every call of TimedResolver::resolve hands the name to the wrapped
\* resolver once; a call that returned gave back what the wrapped resolver
\* gave, and reported one observation, for that name, as a success when the
\* wrapped resolver succeeded and as a failure when it failed.
C20_TimedResolverTransparent ==
    \A i \in DOMAIN timed.calls :
        LET c == timed.calls[i] IN
        /\ c.delegated = <<c.name>>
        /\ c.pc = "returned"
           => /\ c.returned = c.wrapped
              /\ Cardinality(ReportsOf(i)) = 1
              /\ \A k \in ReportsOf(i) :
                    /\ timed.reports[k].report.host = c.name
                    /\ timed.reports[k].report.class
                          = IF c.wrapped.ok THEN "success" ELSE "failure"

\* Reached: one call returned two addresses and another an error, each with
\* its observation reported.
C20_Witness ==
    \E i, j \in DOMAIN timed.calls :
        /\ timed.calls[i].pc = "returned" /\ timed.calls[i].returned.ok
        /\ Len(timed.calls[i].returned.addrs) = 2
        /\ timed.calls[j].pc = "returned" /\ ~timed.calls[j].returned.ok
        /\ timed.calls[j].returned.err = "e2"
        /\ Len(timed.reports) = 2

\* The labels a counter series can stand under.
Labels == [target : Tasks, response : Ok_Results]

\* The value of the series under `label`; 0 when there is none.
CounterAt(family, label) ==
    IF label \in DOMAIN family THEN family[label] ELSE 0

\* Task t's record call increments its counter in this step.
CountStep(t) ==
    metrics.call[t].pc = "count" /\ metrics'.call[t].pc = "history"

\* C21: the increment of a record call raises by exactly 1 the counter
\* under the label made of the caller's target and the outcome's
\* classification, and no other counter of either protocol changes; the
\* other steps of a record call change no counter.
C21_RecordIncrementsOne ==
    [][/\ \A t \in Tasks :
            LET label == [target |-> t, response |-> metrics.call[t].res] IN
            CountStep(t)
            => /\ CounterAt(metrics'.total[Class(t)], label)
                    = CounterAt(metrics.total[Class(t)], label) + 1
               /\ \A p \in {"http", "tcp"}, l \in Labels :
                     (p # Class(t) \/ l # label)
                     => CounterAt(metrics'.total[p], l)
                          = CounterAt(metrics.total[p], l)
               /\ \A p \in {"http", "tcp"} :
                     DOMAIN metrics'.total[p] \subseteq Labels
       /\ (\A t \in Tasks : ~CountStep(t))
          => metrics'.total = metrics.total]_vars

\* Reached: a task recorded two Failures and one Success; its Failure
\* counter is at 2 and its Success counter at 1.
C21_Witness ==
    \E t \in Tasks :
        /\ metrics.completed[Class(t)] = 3
        /\ CounterAt(metrics.total[Class(t)],
                     [target |-> t, response |-> "Failure"]) = 2
        /\ CounterAt(metrics.total[Class(t)],
                     [target |-> t, response |-> "Success"]) = 1

\* C22: no step removes a counter series or lowers its value.
C22_CountersMonotone ==
    [][\A p \in {"http", "tcp"} :
          \A l \in DOMAIN metrics.total[p] :
              /\ l \in DOMAIN metrics'.total[p]
              /\ metrics'.total[p][l] >= metrics.total[p][l]]_vars

\* Reached: a family holds three series, created one after the other.
C22_Witness ==
    \E p \in {"http", "tcp"} :
        /\ Cardinality(DOMAIN metrics.total[p]) = 3
        /\ \A l \in DOMAIN metrics.total[p] : metrics.total[p][l] = 1

\* The outcome of the record call of t that takes a step.
SteppingRes(t) ==
    IF metrics.call[t].pc = "idle" THEN metrics'.call[t].res
    ELSE metrics.call[t].res

\* C23: no step of a record call for a Failure or a Timeout changes a
\* latency series or the history, and the increment of a call for a Timeout
\* changes no Success-classified and no Failure-classified counter.
C23_LatencyOnlyOnSuccess ==
    [][\A t \in Tasks :
          (metrics'.call[t] # metrics.call[t] /\ SteppingRes(t) # "Success")
          => /\ metrics'.response_time_ms = metrics.response_time_ms
             /\ metrics'.recent = metrics.recent
             /\ SteppingRes(t) = "Timeout"
                => \A p \in {"http", "tcp"}, l \in Labels :
                      l.response # "Timeout"
                      => CounterAt(metrics'.total[p], l)
                           = CounterAt(metrics.total[p], l)]_vars

\* Reached: a Success, a Failure and a Timeout of one task were recorded;
\* one latency series and one history entry exist.
C23_Witness ==
    \E t \in Tasks :
        /\ \A r \in Ok_Results :
              CounterAt(metrics.total[Class(t)],
                        [target |-> t, response |-> r]) = 1
        /\ metrics.completed[Class(t)] = 3
        /\ DOMAIN metrics.response_time_ms[Class(t)]
              = {[target |-> t, response |-> "Success"]}
        /\ Len(metrics.recent[Class(t)]) = 1

RECURSIVE SumOver(_)
\* The sum of the series of a family.
SumOver(family) ==
    IF DOMAIN family = {} THEN 0
    ELSE LET l == CHOOSE k \in DOMAIN family : TRUE IN
         family[l] + SumOver([k \in DOMAIN family \ {l} |-> family[k]])

\* The record calls of protocol p that have incremented and not returned.
PastInc(p) == {t \in Tasks : Class(t) = p /\ metrics.call[t].pc = "history"}

\* C30: whatever the interleaving of the record calls, the counters of a
\* protocol add up to the number of its calls that returned plus the
\* number of its calls that have incremented and not returned yet; with no
\* call in progress they add up to the number of completed calls.
C30_NoLostUpdate ==
    \A p \in {"http", "tcp"} :
        SumOver(metrics.total[p])
            = metrics.completed[p] + Cardinality(PastInc(p))

\* Reached: with one call of a protocol completed, two tasks of the
\* protocol are inside their calls for the same classification, one before
\* and one after its increment.
C30_Witness ==
    \E t, u \in Tasks :
        /\ t # u /\ Class(t) = Class(u)
        /\ metrics.completed[Class(t)] = 1
        /\ metrics.call[t].pc = "count"
        /\ metrics.call[u].pc = "history"
        /\ metrics.call[t].res = metrics.call[u].res

\* C24: an HTTP target has a task only when its URL is an http or an https
\* URL: construction fails for a URL that does not parse or has no host, and
\* for every other scheme.
C24_OnlyHttpSchemesScheduled ==
    \A t \in HttpTasks :
        (Configured(t) /\ task[t].pc # "none")
        => EntryOf(t).url \in {"http", "https"}

\* The await points of a raw-backend attempt, in order, for a URL scheme.
HyperOrder(scheme) ==
    IF scheme = "https"
    THEN <<"resolve", "connect", "tls", "handshake", "driver", "response">>
    ELSE <<"resolve", "connect", "handshake", "driver", "response">>

IsPrefix(p, q) == Len(p) <= Len(q) /\ \A i \in DOMAIN p : p[i] = q[i]

\* C26: the steps a raw-backend attempt has entered are an initial part of
\* resolve, connect, TLS handshake, HTTP handshake (after which the request
\* is sent and the connection driven), response, with the TLS handshake
\* there exactly for an https URL; an attempt that ping_inner ended at step
\* k has entered no step after k.
C26_HyperStepOrder ==
    \A t \in HttpTasks :
        task[t].probe.backend = "Hyper"
        => /\ IsPrefix(task[t].trace, HyperOrder(task[t].probe.scheme))
           /\ task[t].pc = "ping"
              => task[t].trace # <<>> /\ Last(task[t].trace) = task[t].step
           /\ (task[t].pc # "ping" /\ task[t].last.by = "inner")
              => Last(task[t].trace) = task[t].last.step

\* Reached: an https attempt came to Success through all six steps.
C26_Witness ==
    \E t \in HttpTasks :
        /\ task[t].probe.backend = "Hyper" /\ task[t].probe.scheme = "https"
        /\ task[t].pc = "idle" /\ task[t].last.res = "Success"
        /\ task[t].trace = HyperOrder("https")

\* C27: a raw-backend attempt that ended because its connection driver
\* task failed has the outcome Failure, which is recorded, and the worker
\* task goes on.
C27_DriverFailureRecorded ==
    \A t \in HttpTasks :
        (task[t].probe.backend = "Hyper" /\ task[t].last.by = "inner"
            /\ task[t].last.step = "driver")
        => /\ task[t].last.res = "Failure"
           /\ task[t].recorded # <<>>
           /\ Last(task[t].recorded).response = "Failure"
           /\ task[t].pc # "panicked"

\* C28: the established time of a Success under the always-resolve policy
\* is the time from just before the TCP connect to the end of the attempt.
C28_EstablishedTimeExcludesResolve ==
    \A t \in TcpTasks :
        (task[t].probe.policy = "Always" /\ task[t].pc = "idle"
            /\ task[t].last.res = "Success")
        => task[t].last.established_time
             = Instant_elapsed(task[t].clock, task[t].connect_begin)

\* C29: a pooled-backend response without a peer address gives a Success,
\* and the task does not panic.
C29_NoPeerAddressIsSuccess ==
    \A t \in HttpTasks :
        (task[t].probe.backend = "Reqwest" /\ task[t].last.io = "no_peer")
        => task[t].last.res = "Success" /\ task[t].pc # "panicked"

\* Every task there is has left its loop, or died of a panic in an attempt.
AllTasksEnded == \A t \in Tasks : task[t].pc \in {"none", "done", "panicked"}

\* C25: once the token is cancelled, the time comes when every task has
\* left its loop (a task whose attempt panicked, which ended neither by
\* completion nor by timeout, is dead instead); and main is past its wait
\* for the ping tasks only when all of them have ended.
C25_ShutdownCompletes ==
    /\ cancelled ~> AllTasksEnded
    /\ [](pcMain = "exited" => AllTasksEnded)

\* Reached: main has exited after the HTTP and the TCP task left their
\* loops, one of them cancelled while its attempt was in flight.
C25_Witness ==
    /\ pcMain = "exited"
    /\ task[<<"http", 1>>].pc = "done"
    /\ task[<<"tcp", 1>>].pc = "done"
    /\ task[<<"tcp", 1>>].atCancel = 1

\* Task t takes the tick branch of its select! in this step.
TickStep(t) ==
    task[t].pc = "idle" /\ task'[t].ticked /\ task'[t].pc # "done"
        /\ (task'[t] # task[t] \/ Retries(t) = 0)

\* C33: a task with retries = 0 never has an attempt, in flight or ended,
\* and nothing recorded, and its tick leaves it waiting for the next one;
\* with retries >= 1 a tick begins at least one attempt.
C33_ZeroRetriesNeverProbes ==
    /\ [](\A t \in Tasks :
            Retries(t) = 0
            => /\ task[t].pc \in {"none", "idle", "done"}
               /\ task[t].attempt = 0 /\ task[t].inflight = 0
               /\ task[t].outcomes = <<>> /\ task[t].recorded = <<>>
               /\ task[t].trace = <<>>)
    /\ [][\A t \in Tasks :
            TickStep(t)
            => IF Retries(t) = 0
               THEN task'[t].pc = "idle"
               ELSE /\ task'[t].attempt >= 1
                    /\ task'[t].inflight = 1 \/ task'[t].outcomes # <<>>]_vars

\* Reached: the HTTP task, with retries = 0, has taken a tick and waits
\* again with nothing attempted, while the TCP task, with retries = 2,
\* has recorded the outcome of a tick.
C33_Witness ==
    /\ config.http.retries = 0 /\ config.tcp.retries = 2
    /\ task[<<"http", 1>>].ticked /\ task[<<"http", 1>>].pc = "idle"
    /\ task[<<"http", 1>>].attempt = 0
    /\ task[<<"tcp", 1>>].pc = "idle" /\ task[<<"tcp", 1>>].attempt = 1
    /\ task[<<"tcp", 1>>].recorded # <<>>

\* C34: a raw-backend attempt whose resolution succeeded with no address
\* has the outcome Failure, and its task has not panicked.
C34_EmptyResolutionIsFailure ==
    \A t \in HttpTasks :
        (task[t].probe.backend = "Hyper" /\ task[t].last.step = "resolve"
            /\ task[t].last.io = "empty")
        => task[t].last.res = "Failure" /\ task[t].pc # "panicked"

\* C32: the series a response of an HTTP probe is counted under carries the
\* probe's method; the responses of two probes with one URL and different
\* methods are counted under two series.
C32_LabelCarriesMethod ==
    labelled.pc = "done"
    => /\ \A i \in 1..2 :
             \E l \in DOMAIN labelled.total :
                 /\ l.url = labelled.responses[i].url
                 /\ l.method = labelled.responses[i].method
       /\ (labelled.responses[1].url = labelled.responses[2].url
             /\ labelled.responses[1].method # labelled.responses[2].method)
          => Cardinality(DOMAIN labelled.total) = 2

\* Task t's record call of a Success updates the history in this step.
PushStep(t) ==
    /\ metrics.call[t].pc = "history" /\ metrics'.call[t].pc = "idle"
    /\ metrics.call[t].res = "Success"

\* C31: no history holds more than 1000 records; the history update of a
\* Success puts the new record last, behind the records there were in their
\* order, without the oldest of them when there were 1000; no other step
\* changes a history.
C31_HistoryBounded ==
    /\ [](\A p \in {"http", "tcp"} : Len(metrics.recent[p]) <= 1000)
    /\ [][/\ \A t \in Tasks :
               PushStep(t)
               => LET old == metrics.recent[Class(t)]
                      new == metrics'.recent[Class(t)]
                      kept == IF Len(old) = 1000 THEN Tail(old) ELSE old IN
                  /\ Len(new) = Len(kept) + 1
                  /\ SubSeq(new, 1, Len(kept)) = kept
                  /\ Last(new).url = t
                  /\ Last(new).response_time_ms = metrics.call[t].latency
                  /\ \A p \in {"http", "tcp"} \ {Class(t)} :
                        metrics'.recent[p] = metrics.recent[p]
          /\ (\A t \in Tasks : ~PushStep(t))
             => metrics'.recent = metrics.recent]_vars

\* Reached: two Successes were recorded on a history of 999 records; it
\* holds 1000 and ends with the two new records.
C31_Witness ==
    \E p \in {"http", "tcp"} :
        /\ metrics.completed[p] = 1001
        /\ Len(metrics.recent[p]) = 1000
        /\ metrics.recent[p][999].timestamp = "t2"
        /\ metrics.recent[p][1000].timestamp = "t2"
        /\ metrics.recent[p][998] = [url |-> <<p, 2>>, timestamp |-> "t1",
                                     response_time_ms |-> 2]

====
